---- MODULE Spec2Model ----
\* Model of libeye.c: the process-wide capture session (create_acquisition,
\* update_array, get_stride, get_image_data, get_window_size,
\* close_acquisition) together with the resources it acquires from the
\* windowing server and the operating system.
EXTENDS Integers, FiniteSets, Sequences, TLC

\* ---------------------------------------------------------------- bounds
\* Number of create_acquisition calls explored (one more under SpecReopen);
\* the n-th call's connection, image descriptor and segment are all
\* identified by n.
MaxOpens == 1
\* Window widths and heights range over 1..MaxDim.
MaxDim == 2
\* Longest client list on the root window.
MaxClients == 2
\* Server pixmaps counted per connection under SpecPixmaps (the count
\* saturates there).
MaxPixmaps == 2

\* ------------------------------------------------------- program constants
NULL == 0
OK == 0
ERR == -1
\* shmget's and shmat's failure value, -1 and (void *)-1.
ShmFail == -1
\* Bytes per pixel of a ZPixmap image of the window's depth (24 or 32).
BytesPerPixel == 4
\* The window carrying a frame property, the window that property names, and
\* the root window of the default screen.
FrameWin == 1
ContentWin == 2
RootWin == 3
\* A handle that names no window of the server.
NoSuchWin == 4
\* char title[256]: a title keeps at most 255 bytes.
TitleMax == 255
\* The WM_NAME of a window that has none (a title is modelled by its length).
NoName == -1

Ids == 1 .. (MaxOpens + 1)
\* The connection get_window_titles opens for itself.
EnumConn == MaxOpens + 2
Dims == 1 .. MaxDim
Windows == {FrameWin, ContentWin}

VARIABLES
    \* the statics of libeye.c
    display, screen, image, shminfo, rootwindow, pixmap, xid, width, height,
    image_data,
    \* the process and the server
    conns,        \* open server connections of the process
    image_objs,   \* heap: XImage structures by id
    segs,         \* System V segments by id
    procAtt,      \* segments attached into the process
    srvAtt,       \* segments attached on the server (by owning connection)
    redirected,   \* <<connection, window>> redirections held on the server
    pixmaps,      \* server pixmaps named by each connection and not freed
    crashed,      \* the process was terminated by undefined behaviour
    \* the windowing environment
    windows,      \* map state and geometry of each window
    props,        \* the frame property of each window
    clients,      \* the client-list property of the root window
    names,        \* the title of each window
    \* the caller of the enumeration and of the resolver
    window_info, count, \* what get_window_titles stored for its caller
    lastArg,      \* the handle given to the last find_client_window call
    \* history of the calls
    nOpens, lastOp, lastRet, lastIssued,
    lastReleased, \* <<operation, target, target was held>> for each release
                  \* operation of the last call
    lastWritten,  \* the segments the server wrote during the last call
    hist,
    openLimit,    \* how many create_acquisition calls the behaviour may hold
    pixLimit      \* how many pixmaps per connection the behaviour counts

progVars == <<display, screen, image, shminfo, rootwindow, pixmap, xid, width,
              height, image_data>>
resVars == <<conns, image_objs, segs, procAtt, srvAtt, redirected>>
envVars == <<windows, props, clients, names>>
enumVars == <<window_info, count, lastArg>>
histVars == <<nOpens, lastOp, lastRet, lastIssued, lastReleased, lastWritten,
              hist>>
limitVars == <<openLimit, pixLimit>>
vars == <<progVars, resVars, pixmaps, crashed, envVars, enumVars, histVars,
          limitVars>>

NoImage == [state |-> "none", width |-> 0, height |-> 0, bytes_per_line |-> 0,
            data |-> NULL]
NoSeg == [state |-> "none", rmid |-> FALSE, size |-> 0]
NoWin == [map |-> "destroyed", w |-> 0, h |-> 0]
NoHoldings == [conns |-> {}, images |-> {}, segs |-> {}, procAtt |-> {},
               srvAtt |-> {}]
\* The part of the call history that describes the current session: "open"
\* after a create_acquisition that returned 0 and while only update_array was
\* called since, "closed" right after the close_acquisition that ended such a
\* session, "none" otherwise; with the holdings and the window size found
\* when that create_acquisition was called.
NoSession == [phase |-> "none", pre |-> NoHoldings, openDims |-> <<0, 0>>]

\* The live resources of the process.
LiveImages == {i \in Ids : image_objs[i].state = "live"}
LiveSegs == {s \in Ids : segs[s].state = "live"}
Holdings == [conns |-> conns, images |-> LiveImages, segs |-> LiveSegs,
             procAtt |-> procAtt, srvAtt |-> srvAtt]

\* The window state the server reports for handle w (unknown handles are
\* answered like destroyed windows, with BadWindow).
WinOf(w) == IF w \in Windows THEN windows[w] ELSE NoWin

\* XGetWindowProperty(display, w, frame_atom, ..., XA_WINDOW, ...): the query
\* fails for a handle that names no window.
FrameProperty(w) ==
    IF w \in Windows /\ windows[w].map # "destroyed" THEN props[w]
    ELSE [kind |-> "fail", value |-> NULL]

\* return window; (the fallback alone)
find_client_window_fallback(w) == {w}

\* find_client_window: the possible results for handle w. A property that is
\* absent or whose query fails leaves prop NULL; a property holding a window
\* yields it; a property that exists with zero items of the requested type
\* yields a non-NULL empty buffer, from which *(Window *)prop reads
\* indeterminate bytes.
find_client_window(w) ==
    LET p == FrameProperty(w)
    IN  CASE p.kind = "window" -> {p.value}
          [] p.kind = "empty" -> Windows \cup {NULL}
          [] OTHER -> {w}

\* The process after loading the library: the statics as initialised, nothing
\* acquired, no call made.
InitProcess ==
    /\ display = NULL /\ screen = 0 /\ image = NULL
    /\ shminfo = [shmseg |-> 0, shmid |-> 0, shmaddr |-> NULL, readOnly |-> FALSE]
    /\ rootwindow = 0 /\ pixmap = 0 /\ xid = 0 /\ width = 0 /\ height = 0
    /\ image_data = NULL
    /\ conns = {} /\ image_objs = [i \in Ids |-> NoImage]
    /\ segs = [s \in Ids |-> NoSeg]
    /\ procAtt = {} /\ srvAtt = {} /\ redirected = {}
    /\ pixmaps = [d \in Ids |-> 0]
    /\ crashed = FALSE
    /\ window_info = <<>> /\ count = 0 /\ lastArg = NULL
    /\ nOpens = 0 /\ lastOp = "none" /\ lastRet = OK /\ lastIssued = {}
    /\ lastReleased = {} /\ lastWritten = {}
    /\ hist = [opened |-> FALSE, afterClose |-> FALSE, refreshed |-> FALSE,
               session |-> NoSession]

\* A frame window naming the content window, both titled and listed as
\* clients of the root window.
FramedWindow ==
    /\ windows[FrameWin] = [map |-> "viewable", w |-> 1, h |-> 1]
    /\ props = [w \in Windows |->
                   IF w = FrameWin THEN [kind |-> "window", value |-> ContentWin]
                   ELSE [kind |-> "absent", value |-> NULL]]
    /\ clients = [kind |-> "window", value |-> <<FrameWin, ContentWin>>]
    /\ names = [w \in Windows |-> 1]

InitWith(n) ==
    /\ InitProcess
    /\ windows \in [Windows -> [map : {"viewable"}, w : Dims, h : Dims]]
    /\ FramedWindow
    /\ openLimit = n
    /\ pixLimit = 0

Init == InitWith(MaxOpens)
InitReopen == InitWith(MaxOpens + 1)

\* The process is terminated: nothing of it is left but the fact.
Abort(op) ==
    /\ crashed' = TRUE
    /\ display' = NULL /\ screen' = 0 /\ image' = NULL
    /\ shminfo' = [shmseg |-> 0, shmid |-> 0, shmaddr |-> NULL, readOnly |-> FALSE]
    /\ rootwindow' = 0 /\ pixmap' = 0 /\ xid' = 0 /\ width' = 0 /\ height' = 0
    /\ image_data' = NULL
    /\ conns' = {} /\ image_objs' = [i \in Ids |-> NoImage]
    /\ segs' = [s \in Ids |-> NoSeg]
    /\ procAtt' = {} /\ srvAtt' = {} /\ redirected' = {}
    /\ pixmaps' = [d \in Ids |-> 0]
    /\ window_info' = <<>> /\ count' = 0 /\ lastArg' = NULL
    /\ lastOp' = op /\ lastRet' = ERR /\ lastIssued' = {} /\ lastReleased' = {}
    /\ lastWritten' = {}
    /\ hist' = [opened |-> FALSE, afterClose |-> FALSE, refreshed |-> FALSE,
                session |-> NoSession]
    /\ UNCHANGED <<envVars, nOpens, limitVars>>

\* ------------------------------------------------------ create_acquisition
\* The points at which create_acquisition returns -1, in program order, and
\* "none" for the path that returns 0.
OpenSteps == <<"connect", "geometry", "composite", "pixmap", "image", "shmget",
               "attach", "none">>
StepNo(f) == CHOOSE n \in 1 .. Len(OpenSteps) : OpenSteps[n] = f
\* The call got past step f.
Passed(fail, f) == StepNo(fail) > StepNo(f)

\* width = attr.width; height = attr.height.
AttrSizeSwapped(attr) == <<attr.h, attr.w>>
AttrSize(attr) == <<attr.w, attr.h>>

\* XShmCreateImage: bytes_per_line of a width-pixel ZPixmap row.
BytesPerLine(w) == w * BytesPerPixel

\* XCompositeNameWindowPixmap(d, x): the server creates a pixmap for the
\* connection if the window is viewable; nothing in libeye.c frees one.
NameWindowPixmap(pm, d, x) ==
    IF WinOf(x).map = "viewable" /\ pm[d] < pixLimit
    THEN [pm EXCEPT ![d] = @ + 1] ELSE pm

\* The history record after a create_acquisition call.
HistAfterOpen(fail, x) ==
    IF fail = "none"
    THEN [opened |-> TRUE, afterClose |-> FALSE, refreshed |-> FALSE,
          session |-> [phase |-> "open", pre |-> Holdings,
                       openDims |-> <<WinOf(x).w, WinOf(x).h>>]]
    ELSE [hist EXCEPT !.session = NoSession]

create_acquisition(window_id) ==
    /\ ~crashed
    /\ nOpens < openLimit
    /\ \E fail \in {OpenSteps[n] : n \in 1 .. Len(OpenSteps)}, shmatOK \in BOOLEAN,
          x \in find_client_window(window_id) :
        LET k == nOpens + 1
            attr == WinOf(x)
            size == AttrSize(attr)
            bpl == BytesPerLine(size[1])
        IN
        \* XGetWindowAttributes fails exactly for a window that does not exist
        /\ Passed(fail, "connect") =>
              ((fail = "geometry") <=> (attr.map = "destroyed"))
        \* inputs that the call never reads are fixed
        /\ ~Passed(fail, "shmget") => shmatOK
        /\ ~Passed(fail, "connect") => x = CHOOSE y \in find_client_window(window_id) : TRUE
        \* display = XOpenDisplay(NULL)
        /\ display' = IF Passed(fail, "connect") THEN k ELSE NULL
        /\ conns' = IF Passed(fail, "connect") THEN conns \cup {k} ELSE conns
        /\ screen' = IF Passed(fail, "connect") THEN 0 ELSE screen
        /\ xid' = IF Passed(fail, "connect") THEN x ELSE xid
        /\ width' = IF Passed(fail, "geometry") THEN size[1] ELSE width
        /\ height' = IF Passed(fail, "geometry") THEN size[2] ELSE height
        \* XCompositeRedirectWindow
        /\ redirected' = IF Passed(fail, "composite")
                         THEN redirected \cup {<<k, x>>} ELSE redirected
        \* pixmap = XCompositeNameWindowPixmap(display, xid): a handle of the
        \* connection, or 0
        /\ pixmap' = IF Passed(fail, "pixmap") THEN k
                     ELSE IF fail = "pixmap" THEN NULL ELSE pixmap
        /\ pixmaps' = IF Passed(fail, "pixmap")
                      THEN NameWindowPixmap(pixmaps, k, x) ELSE pixmaps
        \* image = XShmCreateImage(...); image->data = shmat(...)
        /\ image' = IF Passed(fail, "image") THEN k
                    ELSE IF fail = "image" THEN NULL ELSE image
        /\ image_objs' =
              IF Passed(fail, "image")
              THEN [image_objs EXCEPT ![k] =
                       [state |-> "live", width |-> size[1], height |-> size[2],
                        bytes_per_line |-> bpl,
                        data |-> IF Passed(fail, "shmget")
                                 THEN (IF shmatOK THEN k ELSE ShmFail)
                                 ELSE NULL]]
              ELSE image_objs
        \* shminfo.shmid = shmget(...); shminfo.shmaddr = shmat(...);
        \* XShmAttach sets shminfo.shmseg
        /\ shminfo' =
              [shmseg |-> IF Passed(fail, "attach") THEN k ELSE shminfo.shmseg,
               shmid |-> IF Passed(fail, "shmget") THEN k
                         ELSE IF fail = "shmget" THEN ShmFail ELSE shminfo.shmid,
               shmaddr |-> IF Passed(fail, "shmget")
                           THEN (IF shmatOK THEN k ELSE ShmFail)
                           ELSE shminfo.shmaddr,
               readOnly |-> FALSE]
        /\ segs' = IF Passed(fail, "shmget")
                   THEN [segs EXCEPT ![k] = [state |-> "live", rmid |-> FALSE,
                                             size |-> bpl * size[2]]]
                   ELSE segs
        /\ procAtt' = IF Passed(fail, "shmget") /\ shmatOK
                      THEN procAtt \cup {k} ELSE procAtt
        /\ srvAtt' = IF Passed(fail, "attach") THEN srvAtt \cup {k} ELSE srvAtt
        \* rootwindow = DefaultRootWindow(display)
        /\ rootwindow' = IF Passed(fail, "attach") THEN RootWin ELSE rootwindow
        /\ nOpens' = k
        /\ lastOp' = "open"
        /\ lastRet' = IF fail = "none" THEN OK ELSE ERR
        /\ lastIssued' = {}
        /\ lastReleased' = {}
        /\ lastWritten' = {}
        /\ hist' = HistAfterOpen(fail, x)
    /\ UNCHANGED <<image_data, crashed, envVars, enumVars, limitVars>>

\* ------------------------------------------------------------ update_array
\* A pointer is dangling when it is non-NULL and names a closed connection or
\* a destroyed image: close_acquisition resets neither static.
DanglingDisplay == display # NULL /\ display \notin conns
DanglingImage == image # NULL /\ image_objs[image].state # "live"

\* XShmGetImage(display, pixmap, image, 0, 0, AllPlanes) on connection d for
\* image i: the pixmap must be a valid drawable (the window was viewable when
\* it was named), the image's segment must be attached on that connection,
\* and the image's rectangle must lie inside the drawable.
XShmGetImageOK(d, i, win) ==
    /\ win.map = "viewable"
    /\ shminfo.shmseg = d /\ d \in srvAtt
    /\ image_objs[i].width <= win.w
    /\ image_objs[i].height <= win.h

\* if (!XShmGetImage(...)) return -1; ... return 0;
TransferResultIgnored(ok) == OK
TransferResult(ok) == IF ok THEN OK ELSE ERR

\* The server's ShmGetImage writes the segment of a valid request only.
TransferredAlways(ok, seg) == {seg}
Transferred(ok, seg) == IF ok THEN {seg} ELSE {}

\* image_data = image->data;
ImageDataMoved(objs, i) == objs[i].data + Cardinality(lastIssued)
ImageData(objs, i) == objs[i].data

\* The requests of an update_array that reaches the transfer:
\* XCompositeNameWindowPixmap(display, xid), then XShmGetImage.
RefreshRequestsResolving == {"GetWindowProperty", "NameWindowPixmap", "ShmGetImage"}
RefreshRequests == {"NameWindowPixmap", "ShmGetImage"}

\* update_array returns ret having set pixmap to pm and image_data to data,
\* having issued the requests reqs, the server having written the segments wr
\* and holding the pixmaps pms.
RefreshResult(ret, pm, data, reqs, wr, pms) ==
    /\ pixmap' = pm
    /\ image_data' = data
    /\ pixmaps' = pms
    /\ lastRet' = ret
    /\ lastIssued' = reqs
    /\ lastReleased' = {}
    /\ lastWritten' = wr
    /\ lastOp' = "refresh"
    /\ hist' = [hist EXCEPT !.refreshed = @ \/ (ret = OK),
                            !.session = IF @.phase = "open" THEN @ ELSE NoSession]
    /\ UNCHANGED <<display, screen, image, shminfo, rootwindow, xid, width,
                   height, resVars, crashed, envVars, enumVars, nOpens,
                   limitVars>>

update_array ==
    /\ ~crashed
    /\ \/ \* if (!display || !image) return -1;
          /\ display = NULL \/ image = NULL
          /\ RefreshResult(ERR, pixmap, image_data, {}, {}, pixmaps)
       \/ \* the connection was closed: every Xlib call on it is undefined
          /\ display # NULL /\ image # NULL /\ DanglingDisplay
          /\ \/ Abort("refresh")
             \/ RefreshResult(ERR, NULL, image_data, {}, {}, pixmaps)
             \/ RefreshResult(ERR, display, image_data, {}, {}, pixmaps)
             \/ RefreshResult(OK, display, ImageData(image_objs, image), {}, {},
                              pixmaps)
       \/ \* pixmap = XCompositeNameWindowPixmap(display, xid) returned 0
          /\ display # NULL /\ image # NULL /\ ~DanglingDisplay
          /\ RefreshResult(ERR, NULL, image_data, {"NameWindowPixmap"}, {},
                           pixmaps)
       \/ \* the image was destroyed: XShmGetImage reads freed memory
          /\ display # NULL /\ image # NULL /\ ~DanglingDisplay /\ DanglingImage
          /\ LET pms == NameWindowPixmap(pixmaps, display, xid)
             IN  \/ Abort("refresh")
                 \/ RefreshResult(ERR, display, image_data, {"NameWindowPixmap"},
                                  {}, pms)
                 \/ RefreshResult(OK, display, ImageData(image_objs, image),
                                  {"NameWindowPixmap"}, {}, pms)
       \/ \* XShmGetImage on the live image
          /\ display # NULL /\ image # NULL /\ ~DanglingDisplay /\ ~DanglingImage
          /\ LET reqs == RefreshRequests
                 ok == XShmGetImageOK(display, image, WinOf(xid))
                 ret == TransferResult(ok)
                 wr == Transferred(ok, shminfo.shmid)
                 pms == NameWindowPixmap(pixmaps, display, xid)
             IN  IF ret = OK
                 THEN RefreshResult(OK, display, ImageData(image_objs, image),
                                    reqs, wr, pms)
                 ELSE RefreshResult(ERR, display, image_data, reqs, wr, pms)

\* -------------------------------------------------------------- accessors
get_image_data == image_data
get_window_size == <<width, height>>

\* get_stride: image ? image->bytes_per_line : 0, as the set of values the
\* call can return. Reading a destroyed image is undefined: the stale field
\* or whatever replaced it.
get_stride ==
    IF image = NULL THEN {0}
    ELSE IF image_objs[image].state = "live" THEN {image_objs[image].bytes_per_line}
    ELSE {0, BytesPerLine(width)}

\* ------------------------------------------------------- close_acquisition
\* shmctl(id, IPC_RMID, 0): marks an existing segment for removal.
ShmctlRmidSkipped(sg, id) == sg
ShmctlRmid(sg, id) ==
    IF id \in Ids /\ sg[id].state = "live" THEN [sg EXCEPT ![id].rmid = TRUE] ELSE sg

\* A segment marked for removal disappears with its last attachment.
Collect(sg, pa, sa) ==
    [s \in Ids |-> IF sg[s].state = "live" /\ sg[s].rmid /\ s \notin pa /\ s \notin sa
                   THEN [NoSeg EXCEPT !.state = "gone"] ELSE sg[s]]

\* XDestroyImage(image): frees the structure (again, if it was freed before).
XDestroyImage(objs, i) ==
    IF objs[i].state = "live"
    THEN [objs EXCEPT ![i] = [NoImage EXCEPT !.state = "freed", !.data = objs[i].data]]
    ELSE objs

\* What close_acquisition does that the language leaves undefined: Xlib calls
\* on a NULL or closed display, and destroying a destroyed image.
CloseUndefined ==
    \/ image # NULL /\ (display = NULL \/ DanglingDisplay \/ DanglingImage)
    \/ DanglingDisplay

\* close_acquisition returns normally.
CloseEffects ==
    /\ LET img == image # NULL
           dpy == display # NULL
           live == display \in conns
           \* XShmDetach(display, &shminfo)
           sa1 == IF img /\ live /\ shminfo.shmseg = display
                  THEN srvAtt \ {shminfo.shmseg} ELSE srvAtt
           \* shmdt(shminfo.shmaddr)
           pa1 == IF img THEN procAtt \ {shminfo.shmaddr} ELSE procAtt
           \* shmctl(shminfo.shmid, IPC_RMID, 0)
           sg1 == IF img THEN ShmctlRmid(segs, shminfo.shmid) ELSE segs
           \* XCloseDisplay(display): the server drops what the connection held
           sa2 == IF live THEN sa1 \ {display} ELSE sa1
           relImg == {<<"detach", shminfo.shmseg,
                        live /\ shminfo.shmseg = display /\ display \in srvAtt>>,
                      <<"shmdt", shminfo.shmaddr, shminfo.shmaddr \in procAtt>>,
                      <<"rmid", shminfo.shmid,
                        shminfo.shmid \in LiveSegs /\ ~segs[shminfo.shmid].rmid>>,
                      <<"destroy", image, image \in LiveImages>>}
           relDpy == {<<"close", display, live>>}
       IN  /\ srvAtt' = sa2
           /\ procAtt' = pa1
           /\ segs' = Collect(sg1, pa1, sa2)
           /\ image_objs' = IF img THEN XDestroyImage(image_objs, image)
                            ELSE image_objs
           /\ conns' = conns \ {display}
           /\ redirected' = {r \in redirected : r[1] # display}
           /\ pixmaps' = IF live THEN [pixmaps EXCEPT ![display] = 0] ELSE pixmaps
           /\ lastReleased' = (IF img THEN relImg ELSE {})
                                  \cup (IF dpy THEN relDpy ELSE {})
    /\ lastOp' = "close"
    /\ lastRet' = OK
    /\ lastIssued' = {}
    /\ lastWritten' = {}
    /\ hist' = [hist EXCEPT !.afterClose = TRUE,
                            !.session = IF @.phase = "open"
                                        THEN [@ EXCEPT !.phase = "closed"]
                                        ELSE NoSession]
    /\ UNCHANGED <<progVars, crashed, envVars, enumVars, nOpens, limitVars>>

close_acquisition ==
    /\ ~crashed
    /\ \/ CloseEffects
       \/ CloseUndefined /\ Abort("close")

\* ------------------------------------------------------------ environment
\* Other clients resize, unmap, map and destroy the content window.
SetWindow(st) ==
    /\ ~crashed
    /\ windows' = [windows EXCEPT ![ContentWin] = st]
    /\ UNCHANGED <<progVars, resVars, pixmaps, crashed, props, clients, names,
                   enumVars, histVars, limitVars>>

ResizeWindow(w, h) ==
    /\ windows[ContentWin].map # "destroyed"
    /\ <<w, h>> # <<windows[ContentWin].w, windows[ContentWin].h>>
    /\ SetWindow([windows[ContentWin] EXCEPT !.w = w, !.h = h])

UnmapWindow ==
    /\ windows[ContentWin].map = "viewable"
    /\ SetWindow([windows[ContentWin] EXCEPT !.map = "unmapped"])

MapWindow ==
    /\ windows[ContentWin].map = "unmapped"
    /\ SetWindow([windows[ContentWin] EXCEPT !.map = "viewable"])

DestroyWindow ==
    /\ windows[ContentWin].map # "destroyed"
    /\ SetWindow(NoWin)

\* -------------------------------------------------------- find_client_window
\* The handles a caller may pass.
Handles == Windows \cup {NoSuchWin}

\* A call of the exported find_client_window on a connection of the caller's.
FindClientWindowCall(w) ==
    /\ ~crashed
    /\ \E x \in find_client_window(w) :
          /\ lastArg' = w
          /\ lastRet' = x
    /\ lastOp' = "resolve"
    /\ lastIssued' = {"GetWindowProperty"}
    /\ lastReleased' = {} /\ lastWritten' = {}
    /\ UNCHANGED <<progVars, resVars, pixmaps, crashed, envVars, window_info,
                   count, nOpens, hist, limitVars>>

\* --------------------------------------------------------- get_window_titles
\* strncpy(title, window_name.value, 255); title[255] = 0: the length kept.
Title(len) == IF len > TitleMax THEN TitleMax ELSE len

\* XGetWMName(display, x, &window_name): the window exists and has a name.
XGetWMName(x) ==
    x \in Windows /\ windows[x].map # "destroyed" /\ names[x] # NoName

\* XGetWindowAttributes(display, x, &attrs) && attrs.map_state == IsViewable
IsViewableOrUnmapped(x) == WinOf(x).map # "destroyed"
IsViewable(x) == WinOf(x).map = "viewable"

\* XCloseDisplay(d) on the connections cs of the process.
XCloseDisplayMissing(cs, d) == cs
XCloseDisplay(cs, d) == cs \ {d}

\* The items XGetWindowProperty returns for the client list of the root
\* window: none for a property of another type or without items.
ClientItems == IF clients.kind = "window" THEN clients.value ELSE <<>>

\* The results find_client_window can give for each client of the list cl.
Resolutions(cl) ==
    {xs \in [1 .. Len(cl) -> Handles \cup {NULL}] :
        \A i \in 1 .. Len(cl) : xs[i] \in find_client_window(cl[i])}

\* for (i = 0; i < *count; ++i): the entries written from client i on, info
\* being the entries written so far (valid_count of them) and xs[i] the
\* resolved window of client i.
RECURSIVE TitlesLoop(_, _, _)
TitlesLoop(xs, i, info) ==
    IF i > Len(xs) THEN info
    ELSE LET client_window == xs[i]
         IN  IF XGetWMName(client_window) /\ IsViewable(client_window)
             THEN TitlesLoop(xs, i + 1,
                             Append(info, [window |-> client_window,
                                           title |-> Title(names[client_window])]))
             ELSE TitlesLoop(xs, i + 1, info)

\* get_window_titles returns ret, having stored info and cnt for its caller
\* and leaving the process with the connections cs.
EnumResult(ret, info, cnt, cs) ==
    /\ conns' = cs
    /\ window_info' = info
    /\ count' = cnt
    /\ lastRet' = ret
    /\ lastOp' = "enum"
    /\ lastIssued' = {} /\ lastReleased' = {} /\ lastWritten' = {}
    /\ UNCHANGED <<progVars, image_objs, segs, procAtt, srvAtt, redirected,
                   pixmaps, crashed, envVars, lastArg, nOpens, hist, limitVars>>

get_window_titles ==
    /\ ~crashed
    /\ LET d == EnumConn
           cs == conns \cup {d}
       IN  \/ \* Display *display = XOpenDisplay(NULL); if (!display) return -1;
              EnumResult(ERR, window_info, count, conns)
           \/ \* if (client_list_atom == None)
              EnumResult(ERR, window_info, count, XCloseDisplay(cs, d))
           \/ \* the root window has no client list: prop stays NULL
              /\ clients.kind = "absent"
              /\ EnumResult(ERR, window_info, count, XCloseDisplay(cs, d))
           \/ \* *count = nitems; malloc returned NULL
              /\ clients.kind # "absent"
              /\ EnumResult(ERR, <<>>, Len(ClientItems), XCloseDisplay(cs, d))
           \/ \* the loop over the clients
              /\ clients.kind # "absent"
              /\ \E xs \in Resolutions(ClientItems) :
                    LET info == TitlesLoop(xs, 1, <<>>)
                    IN  EnumResult(OK, info, Len(info), XCloseDisplay(cs, d))

Next ==
    \/ \E w \in Windows : create_acquisition(w)

    \/ update_array
    \/ close_acquisition
    \/ \E w \in Dims, h \in Dims : ResizeWindow(w, h)
    \/ UnmapWindow
    \/ MapWindow
    \/ DestroyWindow

Spec == Init /\ [][Next]_vars

\* The same program, followed through one more create_acquisition.
SpecReopen == InitReopen /\ [][Next]_vars

\* The same program with the server's pixmaps counted.
InitPixmaps ==
    /\ InitProcess
    /\ windows \in [Windows -> [map : {"viewable"}, w : Dims, h : Dims]]
    /\ FramedWindow
    /\ openLimit = MaxOpens
    /\ pixLimit = MaxPixmaps

SpecPixmaps == InitPixmaps /\ [][Next]_vars

\* The resolver and the enumeration over every arrangement of two windows:
\* each viewable, unmapped or destroyed, with or without a title, with a
\* frame property that is absent, empty or names a window, and a client list
\* on the root window that is absent, empty or holds up to MaxClients handles.
PropValues ==
    {[kind |-> "absent", value |-> NULL], [kind |-> "empty", value |-> NULL]}
        \cup {[kind |-> "window", value |-> v] : v \in Windows}
ClientLists ==
    {[kind |-> "absent", value |-> <<>>], [kind |-> "empty", value |-> <<>>]}
        \cup {[kind |-> "window", value |-> cl] :
                 cl \in UNION {[1 .. n -> Windows] : n \in 1 .. MaxClients}}
TitleLens == {NoName, 1, TitleMax + 1}

InitEnum ==
    /\ InitProcess
    /\ windows \in [Windows -> {[map |-> "viewable", w |-> 1, h |-> 1],
                                [map |-> "unmapped", w |-> 1, h |-> 1], NoWin}]
    /\ props \in [Windows -> PropValues]
    /\ clients \in ClientLists
    /\ names \in [Windows -> TitleLens]
    /\ openLimit = MaxOpens
    /\ pixLimit = 0

NextEnum ==
    \/ \E w \in Handles : FindClientWindowCall(w)
    \/ get_window_titles

SpecEnum == InitEnum /\ [][NextEnum]_vars

\* The enumeration called at any point of a session.
InitInterleaved ==
    /\ InitProcess
    /\ windows = [w \in Windows |-> [map |-> "viewable", w |-> 1, h |-> 1]]
    /\ FramedWindow
    /\ openLimit = MaxOpens
    /\ pixLimit = 0

NextInterleaved ==
    \/ \E w \in Windows : create_acquisition(w)
    \/ update_array
    \/ close_acquisition
    \/ get_window_titles
    \/ \E w \in Handles : FindClientWindowCall(w)
    \/ UnmapWindow
    \/ MapWindow
    \/ DestroyWindow

SpecInterleaved == InitInterleaved /\ [][NextInterleaved]_vars

\* ------------------------------------------------------------- properties
\* update_array can return 0 from the current state.
RefreshMayReturnOK ==
    /\ display # NULL /\ image # NULL
    /\ \/ DanglingDisplay
       \/ DanglingImage
       \/ XShmGetImageOK(display, image, WinOf(xid))

\* The session is Closed as callers see it: update_array fails and the
\* accessors report nothing.
LooksClosed == ~RefreshMayReturnOK /\ get_image_data = NULL /\ get_stride = {0}

\* A step of the library (no step of the environment) that ends in call op.
Call(op) == lastOp' = op /\ windows' = windows

\* C1: a create_acquisition that returned -1, whatever step failed, leaves the
\* session Closed and the process holds no connection, image descriptor or
\* segment that this call acquired.
C1_FailedOpenLeavesNothing ==
    (lastOp = "open" /\ lastRet = ERR) =>
        /\ LooksClosed
        /\ nOpens \notin conns
        /\ image_objs[nOpens].state # "live"
        /\ segs[nOpens].state # "live"
        /\ nOpens \notin procAtt /\ nOpens \notin srvAtt

\* C2: after close_acquisition and until the next create_acquisition that
\* returns 0, update_array returns -1, get_image_data returns NULL and
\* get_stride returns 0.
C2_ClosedUntilReopened ==
    (hist.afterClose /\ ~crashed) =>
        /\ lastOp = "refresh" => lastRet = ERR
        /\ get_image_data = NULL
        /\ get_stride = {0}

\* C3: a close_acquisition directly after another close_acquisition, or when
\* no create_acquisition ever returned 0, releases nothing and leaves the
\* session state as it was.
C3_CloseIdempotent ==
    [][(Call("close") /\ (lastOp = "close" \/ ~hist.opened)) =>
          /\ ~crashed'
          /\ lastReleased' = {}
          /\ UNCHANGED <<progVars, resVars>>]_vars

\* C4: while no create_acquisition has returned 0, update_array returns -1,
\* issues no request and leaves every session variable unchanged.
C4_RefreshBeforeOpen ==
    [][(Call("refresh") /\ ~hist.opened) =>
          /\ ~crashed'
          /\ lastRet' = ERR
          /\ lastIssued' = {}
          /\ UNCHANGED <<progVars, resVars>>]_vars

\* The last call released the resources of the session that display, image
\* and shminfo name, each by one operation that found it held: the connection
\* closed, the image destroyed, the segment detached from the server, marked
\* for removal and gone, and detached from the process if shmat had attached
\* it. What is released is never held again, so each was released once.
SessionReleased ==
    /\ display \in Ids /\ image = display
    /\ shminfo.shmid = display /\ shminfo.shmseg = display
    /\ display \notin conns
    /\ image_objs[image].state = "freed"
    /\ segs[display].state = "gone"
    /\ display \notin procAtt /\ display \notin srvAtt
    /\ {r \in redirected : r[1] = display} = {}
    /\ lastReleased = {<<"close", display, TRUE>>,
                       <<"destroy", display, TRUE>>,
                       <<"detach", display, TRUE>>,
                       <<"rmid", display, TRUE>>,
                       <<"shmdt", shminfo.shmaddr, shminfo.shmaddr = display>>}

\* C5: a create_acquisition that returned 0, then any number of update_array
\* calls, then close_acquisition: the process holds what it held before the
\* create_acquisition, and the session's connection, image and segment are
\* each released exactly once.
C5_OpenCloseRestoresHoldings ==
    hist.session.phase = "closed" =>
        /\ Holdings = hist.session.pre
        /\ SessionReleased

\* C5 happens: a session that was refreshed has been closed.
C5_Witness ==
    /\ hist.session.phase = "closed"
    /\ hist.refreshed
    /\ get_image_data # NULL

\* The bytes of one image transfer and the size of the segment they go to.
TransferBytes == image_objs[image].bytes_per_line * image_objs[image].height
Capacity == segs[shminfo.shmid].size

\* C6: an update_array called while the window's size differs from the stored
\* width and height returns -1 and writes nothing past the segment.
C6_ResizedRefreshFails ==
    [][(Call("refresh") /\ hist.session.phase = "open"
          /\ <<WinOf(xid).w, WinOf(xid).h>> # <<width, height>>) =>
          /\ lastRet' = ERR
          /\ TransferBytes <= Capacity]_vars

\* C7: create_acquisition returns 0 only if the image was created, the
\* segment was created, attached into the process and attached on the server.
C7_OpenSucceedsOnlyFullyAcquired ==
    (lastOp = "open" /\ lastRet = OK) =>
        /\ image_objs[nOpens].state = "live"
        /\ segs[nOpens].state = "live"
        /\ nOpens \in procAtt
        /\ nOpens \in srvAtt

\* C8: get_image_data returns NULL while no update_array has returned 0 since
\* the last create_acquisition that returned 0, and a non-NULL result is the
\* data address of the open session's image.
C8_BufferOnlyAfterRefresh ==
    ~crashed =>
        /\ ~hist.refreshed => get_image_data = NULL
        /\ get_image_data # NULL =>
              /\ hist.opened /\ ~hist.afterClose
              /\ image # NULL
              /\ image_objs[image].state = "live"
              /\ get_image_data = image_objs[image].data

C11_SingleSession ==
    /\ Cardinality(conns) <= 1
    /\ Cardinality(LiveImages) <= 1
    /\ Cardinality(LiveSegs) <= 1

\* C12: in a session every update_array that returns 0 sets image_data to the
\* data address of the image created by the session's create_acquisition, and
\* once an update_array has returned 0, get_image_data keeps returning that
\* address for as long as the session stays open.
C12_PointerStable ==
    [][(hist.session.phase = "open" /\ hist'.session.phase = "open") =>
          /\ (Call("refresh") /\ lastRet' = OK) =>
                /\ image = nOpens
                /\ image_objs[image].state = "live"
                /\ get_image_data' = image_objs[image].data
          /\ hist.refreshed => get_image_data' = get_image_data]_vars

\* C12 happens: a second update_array returned 0 in the same session, after
\* the window was resized.
C12_Witness ==
    /\ hist.session.phase = "open"
    /\ lastOp = "refresh" /\ lastRet = OK
    /\ lastIssued = {"NameWindowPixmap", "ShmGetImage"}
    /\ <<WinOf(xid).w, WinOf(xid).h>> # hist.session.openDims
    /\ get_image_data = image_objs[image].data

\* C14: an update_array that returns, with 0 or with -1, leaves the
\* connection, the resolved window, the width and height, the image
\* descriptor and the segment as they were, and asks the server for nothing
\* but the window's pixmap and the image transfer (no property query, so no
\* resolution).
C14_RefreshFrame ==
    [][(Call("refresh") /\ ~crashed') =>
          /\ UNCHANGED <<display, screen, xid, width, height, image, shminfo,
                         rootwindow>>
          /\ UNCHANGED resVars
          /\ lastIssued' \subseteq {"NameWindowPixmap", "ShmGetImage"}
          /\ lastReleased' = {}]_vars

\* C14 happens: in a session an update_array returned 0 and changed the
\* buffer pointer.
C14_Witness ==
    /\ hist.session.phase = "open"
    /\ lastOp = "refresh" /\ lastRet = OK
    /\ lastWritten # {}
    /\ image_data # NULL
    /\ display \in conns /\ xid = ContentWin

\* C15: a close_acquisition that follows a create_acquisition that returned
\* -1 applies each release operation to something held (it detaches, marks
\* and destroys nothing that the failed call had not acquired) and leaves the
\* session Closed.
C15_CloseAfterFailedOpen ==
    [][(Call("close") /\ lastOp = "open" /\ lastRet = ERR) =>
          /\ ~crashed'
          /\ \A r \in lastReleased' : r[3]
          /\ LooksClosed']_vars

\* C16: an update_array that returns -1 leaves image_data at the value it had
\* and the server has written nothing into the segment.
C16_FailedRefreshKeepsBuffer ==
    [][(Call("refresh") /\ lastRet' = ERR /\ ~crashed') =>
          /\ get_image_data' = get_image_data
          /\ lastWritten' = {}]_vars

\* C16 happens: in a session that had a successful update_array, one failed
\* at the image transfer.
C16_Witness ==
    /\ hist.session.phase = "open"
    /\ hist.refreshed
    /\ lastOp = "refresh" /\ lastRet = ERR
    /\ "ShmGetImage" \in lastIssued
    /\ get_image_data # NULL

\* The frame property of handle a as the server holds it.
HasProperty(a, kind) ==
    a \in Windows /\ windows[a].map # "destroyed" /\ props[a].kind = kind

\* C13: find_client_window returns the value of the frame property of the
\* given handle when the property holds a window, and the handle itself when
\* the property is absent or the query fails (no such window); the call
\* changes no variable of the session.
C13_ResolverResult ==
    [][Call("resolve") =>
          /\ HasProperty(lastArg', "window") => lastRet' = props[lastArg'].value
          /\ (HasProperty(lastArg', "absent") \/ lastArg' \notin Windows
                \/ WinOf(lastArg').map = "destroyed") => lastRet' = lastArg'
          /\ UNCHANGED <<progVars, resVars>>]_vars

\* C13 happens: a handle whose frame property names another window was
\* resolved to that window.
C13_Witness ==
    /\ lastOp = "resolve"
    /\ HasProperty(lastArg, "window")
    /\ props[lastArg].value # lastArg
    /\ lastRet = props[lastArg].value

\* C17: find_client_window returns the given handle when its frame property
\* exists without a window value.
C17_EmptyPropertyFallsBack ==
    (lastOp = "resolve" /\ HasProperty(lastArg, "empty")) => lastRet = lastArg

\* The title get_window_titles reports for window x.
ReportedTitle(x) == IF names[x] <= TitleMax THEN names[x] ELSE TitleMax

\* C18: after a get_window_titles that returned 0 the entries are, in the
\* order of the client list, one per client whose resolved window (a result
\* of find_client_window for that client) has a name and is viewable, each
\* with that window and its title, and count is their number, at most the
\* length of the client list.
C18_Enumeration ==
    (lastOp = "enum" /\ lastRet = OK) =>
        \E xs \in Resolutions(ClientItems) :
            LET listed == {i \in 1 .. Len(xs) :
                              /\ xs[i] \in Windows
                              /\ names[xs[i]] # NoName
                              /\ windows[xs[i]].map = "viewable"}
                place(i) == Cardinality({j \in listed : j <= i})
            IN  /\ count = Cardinality(listed)
                /\ Len(window_info) = count
                /\ count <= Len(ClientItems)
                /\ \A i \in listed :
                      window_info[place(i)] =
                          [window |-> xs[i], title |-> ReportedTitle(xs[i])]

\* C18 happens: an enumeration returned fewer entries than clients, the
\* first for a window with a long title that a client's frame property names.
C18_Witness ==
    /\ lastOp = "enum" /\ lastRet = OK
    /\ count >= 1 /\ count < Len(ClientItems)
    /\ window_info[1].title = TitleMax
    /\ \E i \in 1 .. Len(ClientItems) :
          /\ HasProperty(ClientItems[i], "window")
          /\ props[ClientItems[i]].value = window_info[1].window
          /\ ClientItems[i] # window_info[1].window

\* C19: a connection never has more than one pixmap named and not freed, and
\* a closed connection has none.
C19_PixmapsBounded ==
    \A d \in Ids :
        /\ pixmaps[d] <= 1
        /\ d \notin conns => pixmaps[d] = 0

\* C20: get_window_titles, however it returns, leaves the process with the
\* connections it had (its own is closed) and changes no variable and no
\* resource of the capture session.
C20_EnumerationFrame ==
    [][Call("enum") =>
          /\ conns' = conns
          /\ EnumConn \notin conns'
          /\ UNCHANGED <<progVars, resVars, pixmaps, crashed>>]_vars

\* C20 happens: a successful enumeration inside a session that had been
\* refreshed.
C20_Witness ==
    /\ lastOp = "enum" /\ lastRet = OK /\ count >= 1
    /\ hist.session.phase = "open" /\ hist.refreshed
    /\ display \in conns /\ get_image_data # NULL

====
